---- MODULE Spec2Model ----
(***************************************************************************)
(* Model of backend/main.py: the chat gateway of Branching Chat.           *)
(*                                                                         *)
(* A Python str is a sequence of one-character strings, so that split,     *)
(* strip and lower are computed character by character.  None is the       *)
(* sentinel value None below.  A JSON document is a tagged tree.           *)
(* One gateway request is followed from chat() to its HTTP response; the   *)
(* handler is cut at its single blocking point, requests.post.             *)
(***************************************************************************)
EXTENDS Integers, Sequences, FiniteSets, TLC

VARIABLES
    OPENAI_API_KEY,      \* os.getenv("OPENAI_API_KEY"), read once at import
    DEESEEK_API_KEY,     \* os.getenv("DEESEEK_API_KEY"), read once at import
    DEFAULT_MODEL_SPEC,  \* os.getenv("DEFAULT_MODEL_SPEC", "ollama/<default>")
    req,                 \* the ChatRequest being handled
    pc,                  \* position of the handler
    parsed,              \* outcome of parse_model_spec for this request
    netCalls,            \* requests.post calls made for this request, in order
    resp,                \* what the requests.post call raised or returned
    response             \* the HTTP response of the gateway

vars == <<OPENAI_API_KEY, DEESEEK_API_KEY, DEFAULT_MODEL_SPEC,
          req, pc, parsed, netCalls, resp, response>>

config == <<OPENAI_API_KEY, DEESEEK_API_KEY, DEFAULT_MODEL_SPEC>>

----------------------------------------------------------------------------
(* Bounds of the model *)

\* longest model-name body placed after the '/' of a generated routing spec
MaxModelLen == 1
\* longest message history of a generated request
MaxHist == 2

----------------------------------------------------------------------------
(* Python values *)

\* Python None (for Optional[str] and for an unset environment variable)
None == <<"<None>">>

\* truth value of an Optional[str]: None and "" are falsy
Truthy(s) == s # None /\ s # <<>>

UpperCase == <<"A","B","C","D","E","F","G","H","I","J","K","L","M","N","O","P","Q","R","S","T","U","V","W","X","Y","Z">>
LowerCase == <<"a","b","c","d","e","f","g","h","i","j","k","l","m","n","o","p","q","r","s","t","u","v","w","x","y","z">>

\* str.lower() on one character
LowerChar(c) ==
    IF \E i \in 1..26 : UpperCase[i] = c
    THEN LowerCase[CHOOSE i \in 1..26 : UpperCase[i] = c]
    ELSE c

\* str.lower()
Lower(s) == [i \in 1..Len(s) |-> LowerChar(s[i])]

\* the characters str.strip() removes
IsSpace(c) == c \in {" ", "\t", "\n", "\r"}

\* str.strip(): drop leading and trailing whitespace
Strip(s) ==
    LET keep == {i \in 1..Len(s) : ~IsSpace(s[i])}
    IN  IF keep = {} THEN <<>>
        ELSE LET lo == CHOOSE i \in keep : \A j \in keep : i <= j
                 hi == CHOOSE i \in keep : \A j \in keep : j <= i
             IN  SubSeq(s, lo, hi)

\* str.split("/", 1): split at the first '/', at most two parts
Split1(s) ==
    LET at == {i \in 1..Len(s) : s[i] = "/"}
    IN  IF at = {} THEN <<s>>
        ELSE LET k == CHOOSE i \in at : \A j \in at : i <= j
             IN  <<SubSeq(s, 1, k - 1), SubSeq(s, k + 1, Len(s))>>

\* Python's `needle in haystack` on str
Contains(haystack, needle) ==
    \E i \in 0..(Len(haystack) - Len(needle)) :
        SubSeq(haystack, i + 1, i + Len(needle)) = needle

----------------------------------------------------------------------------
(* Configuration *)

\* the fallback of os.getenv("OLLAMA_MODEL", "qwen2.5:7b")
DEFAULT_OLLAMA_MODEL == <<"q","w","e","n","2",".","5",":","7","b">>

\* the fallback of os.getenv("OLLAMA_URL", ...)
OLLAMA_URL == "http://localhost:11434/api/chat"
OPENAI_URL == "https://api.openai.com/v1/chat/completions"
DEEPSEEK_URL == "https://api.deepseek.com/chat/completions"

----------------------------------------------------------------------------
(* Exceptions and results *)

\* HTTPException(status_code=..., detail=...); kind names the raise site in
\* the vocabulary of ProviderError
HTTPException(kind, status_code, detail) ==
    [raised |-> TRUE, kind |-> kind, status_code |-> status_code,
     detail |-> detail]

\* an exception that is not an HTTPException and that no handler catches:
\* the framework answers 500 Internal Server Error
Unhandled(exc) ==
    [raised |-> TRUE, kind |-> "unhandled", status_code |-> 500,
     exc |-> exc, detail |-> <<"I","n","t","e","r","n","a","l"," ","S","e","r","v","e","r"," ","E","r","r","o","r">>]

----------------------------------------------------------------------------
(* parse_model_spec *)

Ollama == <<"o","l","l","a","m","a">>
Openai == <<"o","p","e","n","a","i">>
Deepseek == <<"d","e","e","p","s","e","e","k">>

\* parse_model_spec with the model name taken as written (no strip())
parse_model_spec_unstripped(spec) ==
    LET s == IF ~Truthy(spec) THEN DEFAULT_MODEL_SPEC ELSE spec
        parts == Split1(s)
        provider == Lower(Strip(parts[1]))
    IN  IF Len(parts) = 1
        THEN IF provider = Ollama
             THEN [raised |-> FALSE, provider |-> provider,
                   model_name |-> DEFAULT_OLLAMA_MODEL]
             ELSE IF provider = Openai
             THEN [raised |-> FALSE, provider |-> provider,
                   model_name |-> <<"g","p","t","-","4",".","1","-","m","i","n","i">>]
             ELSE IF provider = Deepseek
             THEN [raised |-> FALSE, provider |-> provider,
                   model_name |-> <<"d","e","e","p","s","e","e","k","-","c","h","a","t">>]
             ELSE HTTPException("unsupported_provider", 400,
                    <<"U","n","k","n","o","w","n"," ","p","r","o","v","i","d","e","r"," ","i","n"," ","m","o","d","e","l"," ","s","p","e","c",":"," ","'">> \o s \o <<"'">>)
        ELSE [raised |-> FALSE, provider |-> provider,
              model_name |-> parts[2]]


\* parse_model_spec with the default substituted for None only (`is None`)
parse_model_spec_none_only(spec) ==
    LET s == IF spec = None THEN DEFAULT_MODEL_SPEC ELSE spec
        parts == Split1(s)
        provider == Lower(Strip(parts[1]))
    IN  IF Len(parts) = 1
        THEN IF provider = Ollama
             THEN [raised |-> FALSE, provider |-> provider,
                   model_name |-> DEFAULT_OLLAMA_MODEL]
             ELSE IF provider = Openai
             THEN [raised |-> FALSE, provider |-> provider,
                   model_name |-> <<"g","p","t","-","4",".","1","-","m","i","n","i">>]
             ELSE IF provider = Deepseek
             THEN [raised |-> FALSE, provider |-> provider,
                   model_name |-> <<"d","e","e","p","s","e","e","k","-","c","h","a","t">>]
             ELSE HTTPException("unsupported_provider", 400,
                    <<"U","n","k","n","o","w","n"," ","p","r","o","v","i","d","e","r"," ","i","n"," ","m","o","d","e","l"," ","s","p","e","c",":"," ","'">> \o s \o <<"'">>)
        ELSE [raised |-> FALSE, provider |-> provider,
              model_name |-> Strip(parts[2])]


parse_model_spec(spec) ==
    LET s == IF ~Truthy(spec) THEN DEFAULT_MODEL_SPEC ELSE spec
        parts == Split1(s)
        provider == Lower(Strip(parts[1]))
    IN  IF Len(parts) = 1
        THEN IF provider = Ollama
             THEN [raised |-> FALSE, provider |-> provider,
                   model_name |-> DEFAULT_OLLAMA_MODEL]
             ELSE IF provider = Openai
             THEN [raised |-> FALSE, provider |-> provider,
                   model_name |-> <<"g","p","t","-","4",".","1","-","m","i","n","i">>]
             ELSE IF provider = Deepseek
             THEN [raised |-> FALSE, provider |-> provider,
                   model_name |-> <<"d","e","e","p","s","e","e","k","-","c","h","a","t">>]
             ELSE HTTPException("unsupported_provider", 400,
                    <<"U","n","k","n","o","w","n"," ","p","r","o","v","i","d","e","r"," ","i","n"," ","m","o","d","e","l"," ","s","p","e","c",":"," ","'">> \o s \o <<"'">>)
        ELSE [raised |-> FALSE, provider |-> provider,
              model_name |-> Strip(parts[2])]


----------------------------------------------------------------------------
(* JSON documents, as resp.json() returns them *)

JNull == [t |-> "null"]
JStr(s) == [t |-> "str", s |-> s]
JArr(a) == [t |-> "arr", a |-> a]
JObj(o) == [t |-> "obj", o |-> o]
\* resp.json() of a body that is not JSON raises JSONDecodeError
NotJson == [t |-> "notjson"]

\* v[k] for a str key k: dict lookup, KeyError when absent, TypeError on
\* anything that is not a dict
GetKey(v, k) ==
    IF v.t = "obj"
    THEN IF k \in DOMAIN v.o
         THEN [exc |-> "none", val |-> v.o[k]]
         ELSE [exc |-> "KeyError"]
    ELSE [exc |-> "TypeError"]

\* v[i] for an int i >= 0: list or str indexing, IndexError out of range;
\* a dict decoded from JSON has str keys only, so KeyError; None: TypeError
GetIndex(v, i) ==
    CASE v.t = "arr" -> IF i < Len(v.a)
                        THEN [exc |-> "none", val |-> v.a[i + 1]]
                        ELSE [exc |-> "IndexError"]
      [] v.t = "str" -> IF i < Len(v.s)
                        THEN [exc |-> "none", val |-> JStr(<<v.s[i + 1]>>)]
                        ELSE [exc |-> "IndexError"]
      [] v.t = "obj" -> [exc |-> "KeyError"]
      [] OTHER       -> [exc |-> "TypeError"]

\* data["message"]["content"]
OllamaPath(data) ==
    LET a == GetKey(data, "message")
    IN  IF a.exc # "none" THEN a ELSE GetKey(a.val, "content")

\* data["choices"][0]["message"]["content"]
ChoicesPath(data) ==
    LET a == GetKey(data, "choices")
    IN  IF a.exc # "none" THEN a
        ELSE LET b == GetIndex(a.val, 0)
             IN  IF b.exc # "none" THEN b
                 ELSE LET c == GetKey(b.val, "message")
                      IN  IF c.exc # "none" THEN c
                          ELSE GetKey(c.val, "content")

\* Response.ok of requests: raise_for_status() raises for 400 <= status < 600
\* only, so every other status counts as ok
RespOk(status_code) == ~(400 <= status_code /\ status_code < 600)

----------------------------------------------------------------------------
(* Provider adapters.  Each is cut at requests.post: the part before builds *)
(* the call, the part after turns the outcome of the call into a result.    *)

\* [{"role": m.role, "content": m.content} for m in messages]
ollama_messages(messages) ==
    [i \in 1..Len(messages) |->
        [role |-> messages[i].role, content |-> messages[i].content]]

openai_messages(messages) ==
    [i \in 1..Len(messages) |->
        [role |-> messages[i].role, content |-> messages[i].content]]

\* the history sent newest first
deepseek_messages_reversed(messages) ==
    [i \in 1..Len(messages) |->
        [role |-> messages[Len(messages) + 1 - i].role,
         content |-> messages[Len(messages) + 1 - i].content]]

deepseek_messages(messages) ==
    [i \in 1..Len(messages) |->
        [role |-> messages[i].role, content |-> messages[i].content]]

call_ollama_begin(model_name, messages) ==
    [raised |-> FALSE, adapter |-> "ollama",
     post |-> [url |-> OLLAMA_URL, timeout |-> 300,
               json |-> [model |-> model_name, stream |-> FALSE,
                         messages |-> ollama_messages(messages)]]]

\* call_openai with the credential tested against None only
call_openai_begin_none_only(model_name, messages) ==
    IF OPENAI_API_KEY = None
    THEN HTTPException("unconfigured", 500,
                       <<"O","P","E","N","A","I","_","A","P","I","_","K","E","Y"," ","i","s"," ","n","o","t"," ","c","o","n","f","i","g","u","r","e","d">>)
    ELSE [raised |-> FALSE, adapter |-> "openai",
          post |-> [url |-> OPENAI_URL, timeout |-> 300,
                    headers |-> [Authorization |->
                                    <<"B","e","a","r","e","r"," ">> \o OPENAI_API_KEY],
                    json |-> [model |-> model_name,
                              messages |-> openai_messages(messages)]]]

call_openai_begin(model_name, messages) ==
    IF ~Truthy(OPENAI_API_KEY)
    THEN HTTPException("unconfigured", 500,
                       <<"O","P","E","N","A","I","_","A","P","I","_","K","E","Y"," ","i","s"," ","n","o","t"," ","c","o","n","f","i","g","u","r","e","d">>)
    ELSE [raised |-> FALSE, adapter |-> "openai",
          post |-> [url |-> OPENAI_URL, timeout |-> 300,
                    headers |-> [Authorization |->
                                    <<"B","e","a","r","e","r"," ">> \o OPENAI_API_KEY],
                    json |-> [model |-> model_name,
                              messages |-> openai_messages(messages)]]]

call_deepseek_begin(model_name, messages) ==
    IF ~Truthy(DEESEEK_API_KEY)
    THEN HTTPException("unconfigured", 500,
                       <<"D","E","E","S","E","E","K","_","A","P","I","_","K","E","Y"," ","i","s"," ","n","o","t"," ","c","o","n","f","i","g","u","r","e","d">>)
    ELSE [raised |-> FALSE, adapter |-> "deepseek",
          post |-> [url |-> DEEPSEEK_URL, timeout |-> 300,
                    headers |-> [Authorization |->
                                    <<"B","e","a","r","e","r"," ">> \o DEESEEK_API_KEY],
                    json |-> [model |-> model_name,
                              messages |-> deepseek_messages(messages)]]]

\* The rest of an adapter once requests.post has raised or returned: out.exc
\* is TRUE for a RequestException with text out.text, otherwise out is the
\* Response (status_code, text, and json, the value resp.json() decodes).
call_ollama_finish(out) ==
    IF out.exc
    THEN HTTPException("connection_failure", 502,
                       <<"O","l","l","a","m","a"," ","c","o","n","n","e","c","t","i","o","n"," ","e","r","r","o","r",":"," ">> \o out.text)
    ELSE IF ~RespOk(out.status_code)
    THEN HTTPException("backend_error", out.status_code, out.text)
    ELSE IF out.json = NotJson
    THEN Unhandled("JSONDecodeError")
    ELSE LET got == OllamaPath(out.json)
         IN  IF got.exc = "none"
             THEN [raised |-> FALSE, value |-> got.val]
             ELSE IF got.exc \in {"KeyError"}
             THEN HTTPException("malformed_response", 500,
                                <<"U","n","e","x","p","e","c","t","e","d"," ","O","l","l","a","m","a"," ","r","e","s","p","o","n","s","e"," ","f","o","r","m","a","t">>)
             ELSE Unhandled(got.exc)

call_openai_finish(out) ==
    IF out.exc
    THEN HTTPException("connection_failure", 502,
                       <<"O","p","e","n","A","I"," ","c","o","n","n","e","c","t","i","o","n"," ","e","r","r","o","r",":"," ">> \o out.text)
    ELSE IF ~RespOk(out.status_code)
    THEN HTTPException("backend_error", out.status_code, out.text)
    ELSE IF out.json = NotJson
    THEN Unhandled("JSONDecodeError")
    ELSE LET got == ChoicesPath(out.json)
         IN  IF got.exc = "none"
             THEN [raised |-> FALSE, value |-> got.val]
             ELSE IF got.exc \in {"KeyError", "IndexError"}
             THEN HTTPException("malformed_response", 500,
                                <<"U","n","e","x","p","e","c","t","e","d"," ","O","p","e","n","A","I"," ","r","e","s","p","o","n","s","e"," ","f","o","r","m","a","t">>)
             ELSE Unhandled(got.exc)

call_deepseek_finish(out) ==
    IF out.exc
    THEN HTTPException("connection_failure", 502,
                       <<"D","e","e","p","S","e","e","k"," ","c","o","n","n","e","c","t","i","o","n"," ","e","r","r","o","r",":"," ">> \o out.text)
    ELSE IF ~RespOk(out.status_code)
    THEN HTTPException("backend_error", out.status_code, out.text)
    ELSE IF out.json = NotJson
    THEN Unhandled("JSONDecodeError")
    ELSE LET got == ChoicesPath(out.json)
         IN  IF got.exc = "none"
             THEN [raised |-> FALSE, value |-> got.val]
             ELSE IF got.exc \in {"KeyError", "IndexError"}
             THEN HTTPException("malformed_response", 500,
                                <<"U","n","e","x","p","e","c","t","e","d"," ","D","e","e","p","S","e","e","k"," ","r","e","s","p","o","n","s","e"," ","f","o","r","m","a","t">>)
             ELSE Unhandled(got.exc)

----------------------------------------------------------------------------
(* Dispatcher and endpoint *)

\* call_llm up to the network call of the selected adapter
call_llm(messages, model_spec) ==
    LET p == parse_model_spec(model_spec)
    IN  IF p.raised THEN p
        ELSE IF p.provider = Ollama
        THEN call_ollama_begin(p.model_name, messages)
        ELSE IF p.provider = Openai
        THEN call_openai_begin(p.model_name, messages)
        ELSE IF p.provider = Deepseek
        THEN call_deepseek_begin(p.model_name, messages)
        ELSE HTTPException("unsupported_provider", 400,
                 <<"U","n","s","u","p","p","o","r","t","e","d"," ","p","r","o","v","i","d","e","r",":"," ","'">> \o p.provider \o <<"'">>)

\* chat() answering with a thread_id of its own
chat_return_fresh_id(r, reply_text) ==
    IF reply_text.t = "str"
    THEN [raised |-> FALSE, status_code |-> 200,
          thread_id |-> "", reply |-> reply_text.s]
    ELSE [raised |-> TRUE, kind |-> "unhandled", status_code |-> 500,
          exc |-> "ValidationError", detail |-> <<"I","n","t","e","r","n","a","l"," ","S","e","r","v","e","r"," ","E","r","r","o","r">>]

\* ChatResponse(thread_id=req.thread_id, reply=reply_text); the model
\* declares reply: str, so any other value fails validation
chat_return(r, reply_text) ==
    IF reply_text.t = "str"
    THEN [raised |-> FALSE, status_code |-> 200,
          thread_id |-> r.thread_id, reply |-> reply_text.s]
    ELSE Unhandled("ValidationError")

\* what chat() answers given the result of the adapter
chat_finish(r, result) ==
    IF result.raised THEN result ELSE chat_return(r, result.value)

----------------------------------------------------------------------------
(* Inputs *)

ApiKeys == {None, <<>>, <<"s","k","-","a">>}

DefaultSpecs ==
    {Ollama \o <<"/">> \o DEFAULT_OLLAMA_MODEL, <<>>, <<" ","O","p","e","n","A","I">>}

SeqsUpTo(S, n) == UNION {[1..k -> S] : k \in 0..n}

\* provider tokens as callers may write them: any case, padded or not
ProviderTokens ==
    {Ollama, <<" ","O","p","e","n","A","I","\t">>, <<"D","e","e","p","S","e","e","k">>, <<"m","a","d","e","-","u","p","-","p","r","o","v","i","d","e","r">>}
PadPairs == {<< <<>>, <<>> >>, << <<" ">>, <<"\t">> >>}
ModelChars == {"x", "/"}

\* the part of a routing spec after the provider token
SpecTails ==
    {<<>>} \cup
    {<<"/">> \o pad[1] \o body \o pad[2] :
        pad \in PadPairs, body \in SeqsUpTo(ModelChars, MaxModelLen)}

\* the values of ChatRequest.model
ModelSpecs ==
    {None, <<>>} \cup
    {tok \o tail : tok \in ProviderTokens, tail \in SpecTails}

Messages ==
    {[role |-> "user", content |-> "hi"],
     [role |-> "assistant", content |-> "hello"]}

ThreadIds == {"", "t1"}

\* the histories of a request: non-empty, at most MaxHist messages
Histories == SeqsUpTo(Messages, MaxHist) \ {<<>>}

ChatRequests ==
    [thread_id : ThreadIds, messages : Histories, model : ModelSpecs]

Content(c) == [k \in {"content"} |-> c]
OllamaBody(m) == JObj([k \in {"message"} |-> m])
ChoicesBody(c) == JObj([k \in {"choices"} |-> c])

\* response bodies of the upstream: raw text and what resp.json() gives
Bodies ==
    {[text |-> <<"{","\"","m","e","s","s","a","g","e","\"",":","{","\"","c","o","n","t","e","n","t","\"",":","\"","h","e","l","l","o","\"","}","}">>,
      json |-> OllamaBody(JObj(Content(JStr(<<"h","e","l","l","o">>))))],
     [text |-> <<"{","\"","m","e","s","s","a","g","e","\"",":","{","\"","c","o","n","t","e","n","t","\"",":","\"","\"","}","}">>,
      json |-> OllamaBody(JObj(Content(JStr(<<>>))))],
     [text |-> <<"{","\"","m","e","s","s","a","g","e","\"",":","{","\"","c","o","n","t","e","n","t","\"",":","n","u","l","l","}","}">>,
      json |-> OllamaBody(JObj(Content(JNull)))],
     [text |-> <<"{","\"","m","e","s","s","a","g","e","\"",":","n","u","l","l","}">>,
      json |-> OllamaBody(JNull)],
     [text |-> <<"{","\"","c","h","o","i","c","e","s","\"",":","[","{","\"","m","e","s","s","a","g","e","\"",":","{","\"","c","o","n","t","e","n","t","\"",":","\"","h","e","l","l","o","\"","}","}","]","}">>,
      json |-> ChoicesBody(JArr(<<OllamaBody(JObj(Content(JStr(<<"h","e","l","l","o">>))))>>))],
     [text |-> <<"{","\"","c","h","o","i","c","e","s","\"",":","[","{","\"","m","e","s","s","a","g","e","\"",":","{","\"","c","o","n","t","e","n","t","\"",":","\"","\"","}","}","]","}">>,
      json |-> ChoicesBody(JArr(<<OllamaBody(JObj(Content(JStr(<<>>))))>>))],
     [text |-> <<"{","\"","c","h","o","i","c","e","s","\"",":","[","]","}">>,
      json |-> ChoicesBody(JArr(<<>>))],
     [text |-> <<"{","\"","c","h","o","i","c","e","s","\"",":","n","u","l","l","}">>,
      json |-> ChoicesBody(JNull)],
     [text |-> <<"{","\"","e","r","r","o","r","\"",":","\"","r","a","t","e"," ","l","i","m","i","t","e","d","\"","}">>,
      json |-> JObj([k \in {"error"} |-> JStr(<<"r","a","t","e"," ","l","i","m","i","t","e","d">>)])],
     [text |-> <<"<","h","t","m","l",">">>,
      json |-> NotJson]}

\* bodies that come with a status other than 200
ErrorBodies ==
    {[text |-> <<"{","\"","e","r","r","o","r","\"",":","\"","r","a","t","e"," ","l","i","m","i","t","e","d","\"","}">>,
      json |-> JObj([k \in {"error"} |-> JStr(<<"r","a","t","e"," ","l","i","m","i","t","e","d">>)])],
     [text |-> <<>>,
      json |-> NotJson]}

Responses(statuses, bodies) ==
    {[exc |-> FALSE, status_code |-> st, text |-> b.text, json |-> b.json] :
        st \in statuses, b \in bodies}

\* what requests.post can do: raise a RequestException or return a Response
Outcomes ==
    {[exc |-> TRUE, text |-> <<"C","o","n","n","e","c","t","i","o","n"," ","r","e","f","u","s","e","d">>]}
    \cup Responses({200}, Bodies)
    \cup Responses({304, 429, 500}, ErrorBodies)

----------------------------------------------------------------------------
(* The state machine of one request *)

NoRequest == [thread_id |-> "", messages |-> <<>>, model |-> None]
NoResponse == [raised |-> FALSE, status_code |-> 0]
NoOutcome == [exc |-> FALSE, status_code |-> 0]

Init ==
    /\ OPENAI_API_KEY \in ApiKeys
    /\ DEESEEK_API_KEY \in ApiKeys
    /\ DEFAULT_MODEL_SPEC \in DefaultSpecs
    /\ req = NoRequest
    /\ pc = "idle"
    /\ parsed = [raised |-> FALSE]
    /\ netCalls = <<>>
    /\ resp = NoOutcome
    /\ response = NoResponse

\* POST /api/chat arrives: chat() runs call_llm until it raises or blocks in
\* the requests.post of the selected adapter
Chat(r) ==
    /\ pc = "idle"
    /\ req' = r
    /\ parsed' = parse_model_spec(r.model)
    /\ LET c == call_llm(r.messages, r.model)
       IN  IF c.raised
           THEN /\ response' = c
                /\ pc' = "done"
                /\ netCalls' = netCalls
           ELSE /\ netCalls' = Append(netCalls, c.post)
                /\ pc' = c.adapter
                /\ response' = response
    /\ UNCHANGED <<config, resp>>

\* call_ollama posting again after a RequestException
OllamaReturnsRetrying(out) ==
    /\ pc = "ollama"
    /\ resp' = out
    /\ IF out.exc /\ Len(netCalls) < 3
       THEN /\ netCalls' = Append(netCalls, netCalls[1])
            /\ UNCHANGED <<pc, response>>
       ELSE /\ response' = chat_finish(req, call_ollama_finish(out))
            /\ pc' = "done"
            /\ UNCHANGED netCalls
    /\ UNCHANGED <<config, req, parsed>>

\* requests.post of call_ollama raises or returns; the handler runs to its end
OllamaReturns(out) ==
    /\ pc = "ollama"
    /\ resp' = out
    /\ response' = chat_finish(req, call_ollama_finish(out))
    /\ pc' = "done"
    /\ UNCHANGED <<config, req, parsed, netCalls>>

OpenaiReturns(out) ==
    /\ pc = "openai"
    /\ resp' = out
    /\ response' = chat_finish(req, call_openai_finish(out))
    /\ pc' = "done"
    /\ UNCHANGED <<config, req, parsed, netCalls>>

DeepseekReturns(out) ==
    /\ pc = "deepseek"
    /\ resp' = out
    /\ response' = chat_finish(req, call_deepseek_finish(out))
    /\ pc' = "done"
    /\ UNCHANGED <<config, req, parsed, netCalls>>

Next ==
    \/ \E r \in ChatRequests : Chat(r)
    \/ \E out \in Outcomes : OllamaReturns(out)
    \/ \E out \in Outcomes : OpenaiReturns(out)
    \/ \E out \in Outcomes : DeepseekReturns(out)

Spec == Init /\ [][Next]_vars

----------------------------------------------------------------------------
(* Vocabulary of the properties *)

KnownProviders == {Ollama, Openai, Deepseek}

\* the provider token of a routing spec: the text before the first '/', or
\* the whole string, trimmed and lower-cased
ProviderToken(spec) == Lower(Strip(Split1(spec)[1]))

HasSlash(spec) == \E i \in 1..Len(spec) : spec[i] = "/"

\* the endpoint of the backend a provider names
UrlOf(provider) ==
    CASE provider = Ollama   -> OLLAMA_URL
      [] provider = Openai   -> OPENAI_URL
      [] provider = Deepseek -> DEEPSEEK_URL
      [] OTHER               -> "none"

\* the per-provider built-in default model name
BuiltinDefault(provider) ==
    CASE provider = Ollama   -> DEFAULT_OLLAMA_MODEL
      [] provider = Openai   -> <<"g","p","t","-","4",".","1","-","m","i","n","i">>
      [] provider = Deepseek -> <<"d","e","e","p","s","e","e","k","-","c","h","a","t">>

\* the request has been answered with an HTTPException of this kind
Failed(kind, status_code) ==
    /\ pc = "done"
    /\ response.raised
    /\ response.kind = kind
    /\ response.status_code = status_code

\* the request has been answered 200
Answered == pc = "done" /\ ~response.raised /\ response.status_code = 200

\* the upstream call returned a Response (it did not raise)
Returned == pc = "done" /\ netCalls # <<>> /\ ~resp.exc

Success(status_code) == 200 <= status_code /\ status_code < 300

\* the reply cannot be located at the response path of the adapter called
NotLocated ==
    \/ resp.json = NotJson
    \/ /\ resp.json # NotJson
       /\ IF netCalls[1].url = OLLAMA_URL
          THEN OllamaPath(resp.json).exc # "none"
          ELSE ChoicesPath(resp.json).exc # "none"

ProviderErrorKinds ==
    {"connection_failure", "backend_error", "malformed_response",
     "unconfigured", "unsupported_provider"}

----------------------------------------------------------------------------
(* Properties *)

\* C1: a request whose routing spec names an unknown provider fails with
\* unsupported_provider (400) and the detail contains the spec as supplied.
C1_UnknownProviderCarriesSpec ==
    (/\ pc # "idle"
     /\ Truthy(req.model)
     /\ ProviderToken(req.model) \notin KnownProviders)
    => /\ Failed("unsupported_provider", 400)
       /\ Contains(response.detail, req.model)

\* C2: a request makes at most one network call, to the backend of the parsed
\* provider, also after the call failed; an unrecognised provider makes none.
C2_AtMostOneCall ==
    /\ Len(netCalls) <= 1
    /\ netCalls # <<>> =>
          /\ ~parsed.raised
          /\ parsed.provider \in KnownProviders
          /\ netCalls[1].url = UrlOf(parsed.provider)
    /\ (pc # "idle" /\ (parsed.raised \/ parsed.provider \notin KnownProviders))
          => netCalls = <<>>

C2_Witness ==
    /\ Failed("connection_failure", 502)
    /\ Len(netCalls) = 1
    /\ netCalls[1].url = DEEPSEEK_URL

\* C3: a cloud adapter whose credential is unset or empty fails with
\* unconfigured (500) and no network call is made.
C3_UnconfiguredNoCall ==
    (/\ pc # "idle"
     /\ ~parsed.raised
     /\ \/ parsed.provider = Openai /\ ~Truthy(OPENAI_API_KEY)
        \/ parsed.provider = Deepseek /\ ~Truthy(DEESEEK_API_KEY))
    => /\ Failed("unconfigured", 500)
       /\ netCalls = <<>>

C3_Witness ==
    /\ Failed("unconfigured", 500)
    /\ parsed.provider = Openai
    /\ OPENAI_API_KEY = <<>>

\* C4: every upstream status outside 2xx makes the request fail with
\* backend_error carrying that status and the raw body.
C4_NonSuccessIsBackendError ==
    (Returned /\ ~Success(resp.status_code))
    => /\ Failed("backend_error", resp.status_code)
       /\ response.detail = resp.text

\* C5: a success status whose body does not hold the reply at the response
\* path of the adapter makes the request fail with malformed_response (500).
C5_NotLocatedIsMalformed ==
    (Returned /\ Success(resp.status_code) /\ NotLocated)
    => Failed("malformed_response", 500)

\* C6: a request ends in a 200 with a non-empty reply or in a failure of one
\* of the five ProviderError kinds.
C6_ReplyOrStructuredFailure ==
    pc = "done" =>
        \/ Answered /\ response.reply # <<>>
        \/ response.raised /\ response.kind \in ProviderErrorKinds

\* C7: a 200 response carries the thread_id of the request unchanged.
C7_ThreadIdEchoed ==
    Answered => response.thread_id = req.thread_id

C7_Witness ==
    /\ Answered
    /\ req.thread_id = ""
    /\ netCalls[1].url = OPENAI_URL

\* the payload of a network call carries the history message by message
PayloadMatches(call) ==
    /\ Len(call.json.messages) = Len(req.messages)
    /\ \A i \in 1..Len(req.messages) :
          /\ call.json.messages[i].role = req.messages[i].role
          /\ call.json.messages[i].content = req.messages[i].content

\* C8: the messages of the outbound payload are the input history, in order
\* and one for one, and the input history is left unchanged.
C8_PayloadPreservesHistory ==
    /\ [](\A i \in 1..Len(netCalls) : PayloadMatches(netCalls[i]))
    /\ [][pc # "idle" => req' = req]_vars

C8_Witness ==
    /\ pc = "done"
    /\ Len(netCalls) = 1
    /\ Len(req.messages) >= 2
    /\ req.messages[1] = req.messages[2]

\* C9: a non-empty spec with a known provider token parses to that provider
\* and to the trimmed text after the first '/', or to the provider's built-in
\* default model name when there is no '/'.
C9_ParseKnownProvider ==
    (/\ pc # "idle"
     /\ Truthy(req.model)
     /\ ProviderToken(req.model) \in KnownProviders)
    => /\ ~parsed.raised
       /\ parsed.provider = ProviderToken(req.model)
       /\ parsed.model_name =
             IF HasSlash(req.model)
             THEN Strip(Split1(req.model)[2])
             ELSE BuiltinDefault(ProviderToken(req.model))

C9_Witness ==
    /\ pc # "idle"
    /\ Truthy(req.model)
    /\ ~parsed.raised
    /\ parsed.provider = Openai
    /\ HasSlash(req.model)
    /\ parsed.model_name # <<>>
    /\ parsed.model_name # Split1(req.model)[2]

\* C10: an absent spec and the empty spec parse exactly as the configured
\* default spec does.
C10_AbsentParsesAsDefault ==
    (pc # "idle" /\ ~Truthy(req.model))
    => parsed = parse_model_spec(DEFAULT_MODEL_SPEC)

C10_Witness ==
    /\ pc # "idle"
    /\ req.model = <<>>
    /\ ~parsed.raised
    /\ parsed.provider = Openai

====
